---- MODULE Spec2Model ----
(***************************************************************************)
(* han-documents: the PDF builder (PDFBuilder.ts, PDFPage.ts) as a state   *)
(* machine, and the table layout engine of the Excel builder as a step     *)
(* machine over a row cursor, a column cursor and a pending-merge ledger.  *)
(***************************************************************************)
EXTENDS Integers, Sequences, FiniteSets, TLC

\* ------------------------------------------------------------------ bounds
Names == {"A", "B"}
MaxPageObjects == 2
MaxBuildPages == 1
MaxBlocks == 1
MaxCalls == 2
MaxGlobal == 1

NoPage == 0
Calls == 1..MaxCalls

\* ---------------------------------------------------------------- helpers
SeqToSet(s) == {s[i] : i \in 1..Len(s)}

Repeat(x, n) == [i \in 1..n |-> x]

RemoveAt(s, k) == [i \in 1..(Len(s) - 1) |-> IF i < k THEN s[i] ELSE s[i + 1]]

\* ------------------------------------------------------------------ state
VARIABLES
  pages,          \* PDFBuilder.pages: the Map's entries in insertion order
  currentPage,    \* PDFBuilder.currentPage: a page object id, or NoPage
  isBuilding,     \* PDFBuilder.isBuilding
  nextId,         \* identity of the next PDFPage object
  globalHeader,   \* PDFBuilder.globalHeader: number of blocks
  globalFooter,   \* PDFBuilder.globalFooter: number of blocks
  enableEvents,   \* config.enableEvents
  styles,         \* PDFBuilder.styles: the names that have a style
  theme,          \* PDFBuilder.theme is defined
  metadata,       \* config.metadata is defined
  events,         \* events handed to the emitter, in order
  stats,          \* PDFBuilder.stats (totalPages, fileSize)
  calls,          \* the build() invocations: position, iterator, document, Result
  last,           \* the outcome of the latest synchronous public call
  lay,            \* the table layout engine's state
  ws,             \* the worksheet: its write cursor and what was written
  maxPages,       \* config.maxPages
  save,           \* the saveToStream() or saveToFile() invocation: position,
                  \* what reached the stream or the file system, promise
  conv,           \* a color and what each conversion made of it
  reader          \* an ExcelReader.fromBuffer() call: input, options, Result

bvars == <<pages, currentPage, isBuilding, nextId, globalHeader, globalFooter,
           enableEvents, styles, theme, metadata, events, stats, calls, last,
           maxPages>>
vars == <<pages, currentPage, isBuilding, nextId, globalHeader, globalFooter,
          enableEvents, styles, theme, metadata, events, stats, calls, last, lay, ws, maxPages, save, conv, reader>>

\* ------------------------------------------------------------ Result type
NoResult == [success |-> FALSE, type |-> "NONE", code |-> "NONE", bytes |-> 0]

success(bytes) == [success |-> TRUE, type |-> "OK", code |-> "OK", bytes |-> bytes]

error(type, code) == [success |-> FALSE, type |-> type, code |-> code, bytes |-> 0]

\* -------------------------------------------------------------- PDFPage
NewPage(id, name, hidden) ==
  [id |-> id, name |-> name, hidden |-> hidden,
   header |-> <<>>, footer |-> <<>>, body |-> 0, content |-> 0,
   isBuilt |-> FALSE]

PageValidateLoose(p) ==
  IF p.hidden THEN success(0)
  ELSE IF p.content = 0 \/ p.body = 0
       THEN error("VALIDATION_ERROR", "EMPTY_PAGE")
       ELSE success(0)

PageValidate(p) ==
  IF p.hidden THEN success(0)
  ELSE IF p.content = 0 /\ p.body = 0
       THEN error("VALIDATION_ERROR", "EMPTY_PAGE")
       ELSE success(0)

\* ----------------------------------------------------------- PDFBuilder
HasPage(ps, name) == \E i \in 1..Len(ps) : ps[i].name = name

PageIndex(ps, name) == CHOOSE i \in 1..Len(ps) : ps[i].name = name

initializeStats == [totalPages |-> 0, fileSize |-> 0]

\* the emitter's input: the build lifecycle events in order, and how many
\* page events of each kind
NoEvents == [build |-> <<>>, pageAdded |-> 0, pageRemoved |-> 0]

\* config.enableEvents is not consulted
emitEventAlways(ev, type) ==
  IF type = "pageAdded" THEN [ev EXCEPT !.pageAdded = @ + 1]
  ELSE IF type = "pageRemoved" THEN [ev EXCEPT !.pageRemoved = @ + 1]
  ELSE [ev EXCEPT !.build = Append(@, type)]

emitEvent(ev, type) ==
  IF ~enableEvents THEN ev
  ELSE IF type = "pageAdded" THEN [ev EXCEPT !.pageAdded = @ + 1]
  ELSE IF type = "pageRemoved" THEN [ev EXCEPT !.pageRemoved = @ + 1]
  ELSE [ev EXCEPT !.build = Append(@, type)]

Outcome(op, kind, res) == [op |-> op, kind |-> kind, res |-> res]

\* A duplicate name is refused but the existing page is replaced anyway.
AddPageOverwrite(name, hidden) ==
  /\ IF HasPage(pages, name)
     THEN /\ last' = Outcome("addPage", "throw", NoResult)
          /\ pages' = [pages EXCEPT ![PageIndex(pages, name)] =
                         NewPage(nextId, name, hidden)]
          /\ UNCHANGED <<currentPage, isBuilding, nextId, globalHeader,
                         globalFooter, enableEvents, styles, theme, metadata, events, stats, calls>>
     ELSE /\ pages' = Append(pages, NewPage(nextId, name, hidden))
          /\ currentPage' = nextId
          /\ nextId' = nextId + 1
          /\ events' = emitEvent(events, "pageAdded")
          /\ last' = Outcome("addPage", "page", NoResult)
          /\ UNCHANGED <<isBuilding, globalHeader, globalFooter, enableEvents, styles, theme, metadata,
                         stats, calls>>
  /\ UNCHANGED <<lay, ws, maxPages, save, conv, reader>>

AddPage(name, hidden) ==
  /\ IF HasPage(pages, name)
     THEN /\ last' = Outcome("addPage", "throw", NoResult)
          /\ UNCHANGED <<pages, currentPage, isBuilding, nextId, globalHeader,
                         globalFooter, enableEvents, styles, theme, metadata, events, stats, calls>>
     ELSE /\ pages' = Append(pages, NewPage(nextId, name, hidden))
          /\ currentPage' = nextId
          /\ nextId' = nextId + 1
          /\ events' = emitEvent(events, "pageAdded")
          /\ last' = Outcome("addPage", "page", NoResult)
          /\ UNCHANGED <<isBuilding, globalHeader, globalFooter, enableEvents, styles, theme, metadata,
                         stats, calls>>
  /\ UNCHANGED <<lay, ws, maxPages, save, conv, reader>>

\* The current page is cleared whichever page is removed.
RemovePageAlwaysClears(name) ==
  /\ IF ~HasPage(pages, name)
     THEN /\ last' = Outcome("removePage", "false", NoResult)
          /\ UNCHANGED <<pages, currentPage, events>>
     ELSE /\ pages' = RemoveAt(pages, PageIndex(pages, name))
          /\ currentPage' = NoPage
          /\ events' = emitEvent(events, "pageRemoved")
          /\ last' = Outcome("removePage", "true", NoResult)
  /\ UNCHANGED <<isBuilding, nextId, globalHeader, globalFooter, enableEvents, styles, theme, metadata,
                 stats, calls, lay, ws, maxPages, save, conv, reader>>

\* The removed page stays the current page.
RemovePageKeepsCurrent(name) ==
  /\ IF ~HasPage(pages, name)
     THEN /\ last' = Outcome("removePage", "false", NoResult)
          /\ UNCHANGED <<pages, currentPage, events>>
     ELSE /\ pages' = RemoveAt(pages, PageIndex(pages, name))
          /\ events' = emitEvent(events, "pageRemoved")
          /\ last' = Outcome("removePage", "true", NoResult)
          /\ UNCHANGED currentPage
  /\ UNCHANGED <<isBuilding, nextId, globalHeader, globalFooter, enableEvents, styles, theme, metadata,
                 stats, calls, lay, ws, maxPages, save, conv, reader>>

RemovePage(name) ==
  /\ IF ~HasPage(pages, name)
     THEN /\ last' = Outcome("removePage", "false", NoResult)
          /\ UNCHANGED <<pages, currentPage, events>>
     ELSE LET i == PageIndex(pages, name)
          IN /\ pages' = RemoveAt(pages, i)
             /\ currentPage' = IF currentPage = pages[i].id
                               THEN NoPage ELSE currentPage
             /\ events' = emitEvent(events, "pageRemoved")
             /\ last' = Outcome("removePage", "true", NoResult)
  /\ UNCHANGED <<isBuilding, nextId, globalHeader, globalFooter, enableEvents, styles, theme, metadata,
                 stats, calls, lay, ws, maxPages, save, conv, reader>>

SetCurrentPage(name) ==
  /\ IF ~HasPage(pages, name)
     THEN /\ last' = Outcome("setCurrentPage", "false", NoResult)
          /\ UNCHANGED currentPage
     ELSE /\ currentPage' = pages[PageIndex(pages, name)].id
          /\ last' = Outcome("setCurrentPage", "true", NoResult)
  /\ UNCHANGED <<pages, isBuilding, nextId, globalHeader, globalFooter,
                 enableEvents, styles, theme, metadata, events, stats, calls, lay, ws, maxPages, save, conv, reader>>

SetMetadata ==
  /\ metadata' = TRUE
  /\ UNCHANGED last
  /\ UNCHANGED <<pages, currentPage, isBuilding, nextId, globalHeader,
                 globalFooter, enableEvents, styles, theme, events, stats, calls, lay, ws, maxPages, save, conv, reader>>

SetGlobalHeader(n) ==
  /\ globalHeader' = n
  /\ UNCHANGED last
  /\ UNCHANGED <<pages, currentPage, isBuilding, nextId, globalFooter,
                 enableEvents, styles, theme, metadata, events, stats, calls, lay, ws, maxPages, save, conv, reader>>

SetGlobalFooter(n) ==
  /\ globalFooter' = n
  /\ UNCHANGED last
  /\ UNCHANGED <<pages, currentPage, isBuilding, nextId, globalHeader,
                 enableEvents, styles, theme, metadata, events, stats, calls, lay, ws, maxPages, save, conv, reader>>

StyleNames == {"title"}

AddStyle(name) ==
  /\ styles' = styles \cup {name}
  /\ UNCHANGED <<pages, currentPage, isBuilding, nextId, globalHeader,
                 globalFooter, enableEvents, theme, metadata, events, stats,
                 calls, last, lay, ws, maxPages, save, conv, reader>>

SetTheme ==
  /\ theme' = TRUE
  /\ UNCHANGED <<pages, currentPage, isBuilding, nextId, globalHeader,
                 globalFooter, enableEvents, styles, metadata, events, stats,
                 calls, last, lay, ws, maxPages, save, conv, reader>>

\* PDFPage.addHeader / addFooter / addContent on a page held by the builder
PageAddHeader(i) ==
  /\ i \in 1..Len(pages)
  /\ pages[i].content < MaxBlocks
  /\ pages' = [pages EXCEPT ![i].header = Append(@, "own"),
                            ![i].content = @ + 1]
  /\ UNCHANGED last
  /\ UNCHANGED <<currentPage, isBuilding, nextId, globalHeader, globalFooter,
                 enableEvents, styles, theme, metadata, events, stats, calls, lay, ws, maxPages, save, conv, reader>>

PageAddFooter(i) ==
  /\ i \in 1..Len(pages)
  /\ pages[i].content < MaxBlocks
  /\ pages' = [pages EXCEPT ![i].footer = Append(@, "own"),
                            ![i].content = @ + 1]
  /\ UNCHANGED last
  /\ UNCHANGED <<currentPage, isBuilding, nextId, globalHeader, globalFooter,
                 enableEvents, styles, theme, metadata, events, stats, calls, lay, ws, maxPages, save, conv, reader>>

PageAddContent(i) ==
  /\ i \in 1..Len(pages)
  /\ pages[i].content < MaxBlocks
  /\ pages' = [pages EXCEPT ![i].body = @ + 1,
                            ![i].content = @ + 1]
  /\ UNCHANGED last
  /\ UNCHANGED <<currentPage, isBuilding, nextId, globalHeader, globalFooter,
                 enableEvents, styles, theme, metadata, events, stats, calls, lay, ws, maxPages, save, conv, reader>>

\* the pages whose own validate() fails, as validate() collects them
ValidationErrors(ps) ==
  {i \in 1..Len(ps) : ~ps[i].hidden /\ ~PageValidate(ps[i]).success}

validateResult(ps) ==
  IF Len(ps) = 0 THEN error("VALIDATION_ERROR", "NO_PAGES")
  ELSE IF ValidationErrors(ps) # {}
       THEN error("VALIDATION_ERROR", "VALIDATION_FAILED")
       ELSE success(1)

Validate ==
  /\ last' = Outcome("validate", "result", validateResult(pages))
  /\ UNCHANGED <<pages, currentPage, isBuilding, nextId, globalHeader,
                 globalFooter, enableEvents, styles, theme, metadata, events, stats, calls, lay, ws, maxPages, save, conv, reader>>

\* clear() also drops the build guard
ClearReopensGuard ==
  /\ pages' = <<>>
  /\ currentPage' = NoPage
  /\ metadata' = FALSE
  /\ stats' = initializeStats
  /\ isBuilding' = FALSE
  /\ UNCHANGED last
  /\ UNCHANGED <<nextId, globalHeader, globalFooter, enableEvents, styles, theme,
                 events, calls, lay, ws, maxPages, save, conv, reader>>

Clear ==
  /\ pages' = <<>>
  /\ currentPage' = NoPage
  /\ metadata' = FALSE
  /\ stats' = initializeStats
  /\ UNCHANGED last
  /\ UNCHANGED <<isBuilding, nextId, globalHeader, globalFooter, enableEvents, styles, theme,
                 events, calls, lay, ws, maxPages, save, conv, reader>>

CreateFromJSON ==
  /\ last' = Outcome("createFromJSON", "result",
                     error("BUILD_ERROR", "NOT_IMPLEMENTED"))
  /\ UNCHANGED <<pages, currentPage, isBuilding, nextId, globalHeader,
                 globalFooter, enableEvents, styles, theme, metadata, events, stats, calls, lay, ws, maxPages, save, conv, reader>>

\* ------------------------------------------------------ PDFBuilder.build
IdleCall ==
  [pc |-> "idle", visited |-> {}, doc |-> <<>>, fault |-> FALSE,
   result |-> NoResult]

\* a call that has returned: its locals (document, iterator) are gone
Returned(res) ==
  [pc |-> "done", visited |-> {}, doc |-> <<>>, fault |-> FALSE, result |-> res]

Min(S) == CHOOSE x \in S : \A y \in S : x <= y

\* the concatenated chunks the backend emits: one per page and a trailer
ByteLength(doc) == Len(doc) + 1

ResetBuilt(ps) == [i \in 1..Len(ps) |-> [ps[i] EXCEPT !.isBuilt = FALSE]]

\* the iterator runs from the last entry of the Map to the first
NextVisibleReversed(ps, visited) ==
  LET unv == {i \in 1..Len(ps) : ps[i].id \notin visited}
      vis == {i \in unv : ~ps[i].hidden}
      idx == IF vis = {} THEN 0 ELSE CHOOSE x \in vis : \A y \in vis : x >= y
      skipped == {ps[i].id : i \in {j \in unv : idx = 0 \/ j > idx}}
  IN [idx |-> idx, visited |-> visited \cup skipped]

\* the Map iterator: the first entry not yet visited that is not hidden;
\* hidden entries on the way are passed without suspending
NextVisible(ps, visited) ==
  LET unv == {i \in 1..Len(ps) : ps[i].id \notin visited}
      vis == {i \in unv : ~ps[i].hidden}
      idx == IF vis = {} THEN 0 ELSE Min(vis)
      skipped == {ps[i].id : i \in {j \in unv : idx = 0 \/ j < idx}}
  IN [idx |-> idx, visited |-> visited \cup skipped]

WithGlobals(p) ==
  [p EXCEPT !.header = Repeat("global", globalHeader) \o @,
            !.footer = Repeat("global", globalFooter) \o @]

\* what PDFPage.build puts in the document: one page, its sections in the
\* order they are built
Rendered(p) ==
  [id |-> p.id, header |-> p.header, body |-> p.body, footer |-> p.footer,
   order |-> <<"header", "body", "footer">>]

\* one turn of the page loop, up to the next await
Advance(ps, c, fault) ==
  LET nv == NextVisible(ps, c.visited)
  IN IF nv.idx = 0
     THEN [pages |-> ps,
           call |-> [c EXCEPT !.pc = "ending", !.visited = nv.visited]]
     ELSE LET p == WithGlobals(ps[nv.idx])
              renders == ~p.isBuilt /\ ~p.hidden
              q == IF renders /\ ~fault THEN [p EXCEPT !.isBuilt = TRUE] ELSE p
          IN [pages |-> [ps EXCEPT ![nv.idx] = q],
              call |-> [c EXCEPT !.pc = "pages",
                                 !.visited = nv.visited \cup {p.id},
                                 !.doc = IF renders THEN Append(@, Rendered(p))
                                         ELSE @,
                                 !.fault = renders /\ fault]]

\* the guard is released as soon as a rejected call returns
BuildCallReleasesGuard(t, fault) ==
  /\ calls[t].pc = "idle"
  /\ \A u \in Calls : u < t => calls[u].pc # "idle"
  /\ IF isBuilding
     THEN /\ calls' = [calls EXCEPT ![t] =
                         Returned(error("BUILD_ERROR", "BUILD_IN_PROGRESS"))]
          /\ isBuilding' = FALSE
          /\ UNCHANGED <<pages, events>>
     ELSE LET a == Advance(ResetBuilt(pages), calls[t], fault)
          IN /\ isBuilding' = TRUE
             /\ events' = emitEvent(events, "buildStarted")
             /\ pages' = a.pages
             /\ calls' = [calls EXCEPT ![t] = a.call]
  /\ UNCHANGED last
  /\ UNCHANGED <<currentPage, nextId, globalHeader, globalFooter, enableEvents, styles, theme,
                 metadata, stats, lay, ws, maxPages, save, conv, reader>>

BuildCall(t, fault) ==
  /\ calls[t].pc = "idle"
  /\ \A u \in Calls : u < t => calls[u].pc # "idle"
  /\ IF isBuilding
     THEN /\ calls' = [calls EXCEPT ![t] =
                         Returned(error("BUILD_ERROR", "BUILD_IN_PROGRESS"))]
          /\ UNCHANGED <<pages, isBuilding, events>>
     ELSE LET a == Advance(ResetBuilt(pages), calls[t], fault)
          IN /\ isBuilding' = TRUE
             /\ events' = emitEvent(events, "buildStarted")
             /\ pages' = a.pages
             /\ calls' = [calls EXCEPT ![t] = a.call]
  /\ UNCHANGED last
  /\ UNCHANGED <<currentPage, nextId, globalHeader, globalFooter, enableEvents, styles, theme,
                 metadata, stats, lay, ws, maxPages, save, conv, reader>>

\* the catch block returns without releasing the guard
BuildCatchKeepsGuard(t) ==
  /\ events' = emitEvent(events, "buildError")
  /\ calls' = [calls EXCEPT ![t] = Returned(error("BUILD_ERROR", "BUILD_FAILED"))]
  /\ UNCHANGED <<pages, stats, isBuilding>>

\* the catch block of build()
BuildCatch(t) ==
  /\ events' = emitEvent(events, "buildError")
  /\ isBuilding' = FALSE
  /\ calls' = [calls EXCEPT ![t] = Returned(error("BUILD_ERROR", "BUILD_FAILED"))]
  /\ UNCHANGED <<pages, stats>>

\* the continuation after `await page.build(doc, options)`
BuildResume(t, fault) ==
  /\ calls[t].pc = "pages"
  /\ IF calls[t].fault
     THEN BuildCatch(t)
     ELSE LET a == Advance(pages, calls[t], fault)
          IN /\ pages' = a.pages
             /\ calls' = [calls EXCEPT ![t] = a.call]
             /\ UNCHANGED <<isBuilding, events, stats>>
  /\ UNCHANGED <<currentPage, nextId, globalHeader, globalFooter, enableEvents, styles, theme,
                 metadata, last, lay, ws, maxPages, save, conv, reader>>

\* the continuation after `await bufferPromise`: the backend emitted 'end'
\* (ok) or 'error'
BuildEnd(t, ok) ==
  /\ calls[t].pc = "ending"
  /\ IF ok
     THEN LET bytes == ByteLength(calls[t].doc)
          IN /\ stats' = [totalPages |-> Len(pages), fileSize |-> bytes]
             /\ events' = emitEvent(events, "buildCompleted")
             /\ isBuilding' = FALSE
             /\ calls' = [calls EXCEPT ![t] = Returned(success(bytes))]
             /\ UNCHANGED pages
     ELSE BuildCatch(t)
  /\ UNCHANGED <<currentPage, nextId, globalHeader, globalFooter, enableEvents, styles, theme,
                 metadata, last, lay, ws, maxPages, save, conv, reader>>

\* ---- saveToStream
\* One saveToStream() or saveToFile() invocation: where it stands, the build()
\* call it awaits, how many times it called build(), the chunks the stream
\* received, options.createDir and whether the directory was made and the
\* file written, and the promise it returned.
IdleSave ==
  [pc |-> "idle", t |-> 0, builds |-> 0, chunks |-> <<>>,
   createDir |-> FALSE, dir |-> FALSE, file |-> FALSE,
   promise |-> "pending", result |-> NoResult]

Settled(sv, how, res) ==
  [sv EXCEPT !.pc = "done", !.promise = how, !.result = res]

\* up to `await this.build(options)`: the environment check, the
\* downloadStarted event, and build() up to its first await
SaveToStream(t, browser, fault) ==
  /\ save.pc = "idle"
  /\ IF browser
     THEN /\ save' = Settled(save, "resolved",
                             error("FILE_ERROR", "BROWSER_ENVIRONMENT"))
          /\ UNCHANGED <<pages, isBuilding, events, calls>>
     ELSE /\ calls[t].pc = "idle"
          /\ \A u \in Calls : u < t => calls[u].pc # "idle"
          /\ save' = [save EXCEPT !.pc = "building", !.t = t, !.builds = @ + 1]
          /\ IF isBuilding
             THEN /\ calls' = [calls EXCEPT ![t] =
                                 Returned(error("BUILD_ERROR", "BUILD_IN_PROGRESS"))]
                  /\ events' = emitEvent(events, "downloadStarted")
                  /\ UNCHANGED <<pages, isBuilding>>
             ELSE LET a == Advance(ResetBuilt(pages), calls[t], fault)
                  IN /\ isBuilding' = TRUE
                     /\ events' = emitEvent(emitEvent(events, "downloadStarted"),
                                            "buildStarted")
                     /\ pages' = a.pages
                     /\ calls' = [calls EXCEPT ![t] = a.call]
  /\ UNCHANGED <<currentPage, nextId, globalHeader, globalFooter, enableEvents, styles, theme,
                 metadata, stats, last, lay, ws, maxPages, conv, reader>>

\* the continuation after `await this.build(options)`: a failed build is
\* returned as it is; otherwise the promise is made and its executor calls
\* writeStream.write(nodeBuffer, callback), which takes the chunk or throws.
\* The promise is returned without await, so the catch block does not see it.
SaveResume(throws) ==
  /\ save.pc = "building"
  /\ calls[save.t].pc = "done"
  /\ LET r == calls[save.t].result
     IN IF ~r.success
        THEN save' = Settled(save, "resolved", r)
        ELSE IF throws
        THEN save' = Settled(save, "rejected", NoResult)
        ELSE save' = [save EXCEPT !.pc = "written",
                                  !.chunks = Append(@, r.bytes)]
  /\ UNCHANGED <<bvars, lay, ws, conv, reader>>

\* the stream calls back, with an error or without
SaveCallback(err) ==
  /\ save.pc = "written"
  /\ IF err
     THEN /\ events' = emitEvent(events, "downloadError")
          /\ save' = Settled(save, "resolved",
                             error("FILE_ERROR", "STREAM_WRITE_FAILED"))
     ELSE /\ events' = emitEvent(events, "downloadCompleted")
          /\ save' = Settled(save, "resolved", success(0))
  /\ UNCHANGED <<pages, currentPage, isBuilding, nextId, globalHeader, globalFooter,
                 enableEvents, styles, theme, metadata, stats, calls, last,
                 lay, ws, maxPages, conv, reader>>

\* ---- saveToFile
\* `await this.build(options)` inside saveToFile, after the events ev: build()
\* up to its first await
FileBuild(t, fault, ev) ==
  /\ calls[t].pc = "idle"
  /\ \A u \in Calls : u < t => calls[u].pc # "idle"
  /\ IF isBuilding
     THEN /\ calls' = [calls EXCEPT ![t] =
                         Returned(error("BUILD_ERROR", "BUILD_IN_PROGRESS"))]
          /\ events' = ev
          /\ UNCHANGED <<pages, isBuilding>>
     ELSE LET a == Advance(ResetBuilt(pages), calls[t], fault)
          IN /\ isBuilding' = TRUE
             /\ events' = emitEvent(ev, "buildStarted")
             /\ pages' = a.pages
             /\ calls' = [calls EXCEPT ![t] = a.call]

\* the catch block of saveToFile
FileCatch ==
  /\ events' = emitEvent(events, "downloadError")
  /\ save' = Settled(save, "resolved", error("FILE_ERROR", "SAVE_FAILED"))
  /\ UNCHANGED <<pages, isBuilding, calls>>

\* up to the first await: the environment check, the downloadStarted event,
\* and then `await fs.mkdir(dir)` unless options.createDir is false, in which
\* case build() is entered at once
SaveToFile(t, browser, createDir, fault) ==
  /\ save.pc = "idle"
  /\ IF browser
     THEN /\ save' = Settled(save, "resolved",
                             error("FILE_ERROR", "BROWSER_ENVIRONMENT"))
          /\ UNCHANGED <<pages, isBuilding, events, calls>>
     ELSE IF createDir
     THEN /\ save' = [save EXCEPT !.pc = "mkdir", !.createDir = TRUE]
          /\ events' = emitEvent(events, "downloadStarted")
          /\ UNCHANGED <<pages, isBuilding, calls>>
     ELSE /\ save' = [save EXCEPT !.pc = "fileBuilding", !.t = t, !.builds = @ + 1]
          /\ FileBuild(t, fault, emitEvent(events, "downloadStarted"))
  /\ UNCHANGED <<currentPage, nextId, globalHeader, globalFooter, enableEvents, styles, theme,
                 metadata, stats, last, lay, ws, maxPages, conv, reader>>

\* the continuation after `await fs.mkdir(dir, { recursive: true })`: the
\* directory is there, or mkdir failed; then build() is entered
SaveMkdir(t, ok, fault) ==
  /\ save.pc = "mkdir"
  /\ IF ok
     THEN /\ save' = [save EXCEPT !.pc = "fileBuilding", !.t = t, !.builds = @ + 1,
                                  !.dir = TRUE]
          /\ FileBuild(t, fault, events)
     ELSE FileCatch
  /\ UNCHANGED <<currentPage, nextId, globalHeader, globalFooter, enableEvents, styles, theme,
                 metadata, stats, last, lay, ws, maxPages, conv, reader>>

\* the continuation after `await this.build(options)`: a failed build is
\* returned as it is, otherwise fs.writeFile is awaited
SaveFileResume ==
  /\ save.pc = "fileBuilding"
  /\ calls[save.t].pc = "done"
  /\ LET r == calls[save.t].result
     IN IF ~r.success
        THEN save' = Settled(save, "resolved", r)
        ELSE save' = [save EXCEPT !.pc = "writeFile"]
  /\ UNCHANGED <<bvars, lay, ws, conv, reader>>

\* the continuation after `await fs.writeFile(filePath, nodeBuffer, 'binary')`
SaveWriteFile(ok) ==
  /\ save.pc = "writeFile"
  /\ IF ok
     THEN /\ events' = emitEvent(events, "downloadCompleted")
          /\ save' = Settled([save EXCEPT !.file = TRUE], "resolved", success(0))
          /\ UNCHANGED <<pages, isBuilding, calls>>
     ELSE FileCatch
  /\ UNCHANGED <<currentPage, nextId, globalHeader, globalFooter, enableEvents, styles, theme,
                 metadata, stats, last, lay, ws, maxPages, conv, reader>>

\* ------------------------------------------------- table layout engine
\* A logical cell: key, value (supplier and item numbers in the realistic
\* table), jump, mergeAs.rows (0: none), mergeTo as the column span, children.
MergeRows == {0, 1, 2}
ColSpans == {1, 2}
NoValue == [s |-> 0, i |-> 0]

LogicalCell(key, value, jump, rows, span, children) ==
  [kind |-> "cell", key |-> key, value |-> value, jump |-> jump,
   rows |-> rows, fromKey |-> "", span |-> span, children |-> children]

\* a cell that declares mergeAs.fromKey = K
FromKeyCell(key, value, jump, K, children) ==
  [LogicalCell(key, value, jump, 0, 1, children) EXCEPT !.fromKey = K]

Mark(kind) ==
  [kind |-> kind, key |-> "", value |-> NoValue, jump |-> FALSE,
   rows |-> 0, fromKey |-> "", span |-> 1, children |-> <<>>]

FirstCol == 1
StartRow == 1

\* the pending-merge ledger covers (r, c) below the anchor of a merge
Covered(ledger, r, c) ==
  \E m \in ledger : m.col = c /\ r > m.row /\ r <= m.row + m.n

\* the ledger is not consulted
FreeColIgnoresLedger(ledger, r, c) == c

\* the first column from c on that no pending merge covers in row r
FreeCol(ledger, r, c) ==
  Min({k \in c..(c + Cardinality(ledger)) : ~Covered(ledger, r, k)})

\* any non-zero count is taken for a merge
rowSpanNonZero(cell) == IF cell.rows # 0 THEN cell.rows + 1 ELSE 1

\* the span counts the covered rows only
rowSpanCoveredOnly(cell) == IF cell.rows >= 1 THEN cell.rows ELSE 1

\* mergeAs.rows = N gives rowSpan N + 1; anything else is no merge
rowSpan(cell) == IF cell.rows >= 1 THEN cell.rows + 1 ELSE 1

PhysicalCell(r, c, cell) ==
  [row |-> r, col |-> c, rowSpan |-> rowSpan(cell), colSpan |-> cell.span,
   key |-> cell.key, value |-> cell.value, rows |-> cell.rows]

\* place one cell on the current physical row; its children come next and,
\* when it is marked jump, the row is closed after them
PlaceCell(L, cell) ==
  LET c == FreeCol(L.ledger, L.row, L.col)
  IN [L EXCEPT
        !.out = Append(@, PhysicalCell(L.row, c, cell)),
        !.col = c + cell.span,
        !.ledger = IF cell.rows >= 1
                   THEN @ \cup {[row |-> L.row, col |-> c, n |-> cell.rows]}
                   ELSE @,
        !.todo = cell.children
                 \o (IF cell.jump THEN <<Mark("jump")>> ELSE <<>>)
                 \o Tail(L.todo)]

\* the column cursor is reset but the row is not advanced
OpenRowSameRow(L) == [L EXCEPT !.col = FirstCol, !.todo = Tail(@)]

\* a jump leaves a blank row behind
OpenRowTwice(L) ==
  [L EXCEPT !.row = @ + 2, !.col = FirstCol, !.todo = Tail(@)]

\* close the current physical row and open the next one
OpenRow(L) == [L EXCEPT !.row = @ + 1, !.col = FirstCol, !.todo = Tail(@)]

EnterBody(L) == [L EXCEPT !.bodyStart = L.row, !.todo = Tail(@)]

\* the body is exhausted: the footers go on a physical row of their own
LeaveBody(L) ==
  [L EXCEPT !.bodyEnd = L.row,
            !.row = IF L.col > FirstCol THEN @ + 1 ELSE @,
            !.col = FirstCol,
            !.todo = Tail(@)]

LayoutStep(L) ==
  LET item == Head(L.todo)
  IN IF item.kind = "cell" THEN PlaceCell(L, item)
     ELSE IF item.kind = "jump" THEN OpenRow(L)
     ELSE IF item.kind = "bodyStart" THEN EnterBody(L)
     ELSE LeaveBody(L)

RECURSIVE LayoutSteps(_, _)
\* at most n steps of the placement loop
LayoutSteps(L, n) ==
  IF L.todo = <<>> THEN L
  ELSE IF n <= 1 THEN LayoutStep(L)
  ELSE LayoutSteps(LayoutSteps(L, n \div 2), n - (n \div 2))

RECURSIVE LayoutFrom(_, _)
LayoutFrom(L, n) ==
  IF L.todo = <<>> THEN [L EXCEPT !.done = TRUE]
  ELSE LayoutFrom(LayoutSteps(L, n), 2 * n)

\* the placement loop, run until nothing is left to place
LayoutRun(L) == LayoutFrom(L, 1)

\* ---- mergeAs.fromKey: the lookahead over the sibling group
\* the cell keyed K of a sibling row: the sibling itself or one of its children
KeyCells(cell, K) ==
  IF cell.key = K THEN <<cell>>
  ELSE SelectSeq(cell.children, LAMBDA c : c.key = K)

HasKey(cell, K) == KeyCells(cell, K) # <<>>

KeyValue(cell, K) == KeyCells(cell, K)[1].value

\* the lookahead takes one sibling too many when the group goes on
FromKeySpanOneMore(cells, i, K) ==
  IF ~HasKey(cells[i], K) THEN 1
  ELSE LET same(j) == HasKey(cells[j], K)
                        /\ KeyValue(cells[j], K) = KeyValue(cells[i], K)
           stop == {j \in (i + 1)..Len(cells) : ~same(j)}
       IN IF stop = {} THEN Len(cells) - i + 1 ELSE Min(stop) - i + 1

\* the siblings from cells[i] on, within the group, whose cell keyed K keeps
\* the value it has in cells[i]; 1 when cells[i] has no cell keyed K
FromKeySpan(cells, i, K) ==
  IF ~HasKey(cells[i], K) THEN 1
  ELSE LET same(j) == HasKey(cells[j], K)
                        /\ KeyValue(cells[j], K) = KeyValue(cells[i], K)
           stop == {j \in (i + 1)..Len(cells) : ~same(j)}
       IN IF stop = {} THEN Len(cells) - i + 1 ELSE Min(stop) - i

RECURSIVE Resolve(_)
\* every fromKey merge of a sibling group, and of the groups below it, turned
\* into the number of additional rows it spans
Resolve(cells) ==
  [i \in 1..Len(cells) |->
     [cells[i] EXCEPT
        !.rows = IF cells[i].fromKey = "" THEN @
                 ELSE FromKeySpan(cells, i, cells[i].fromKey) - 1,
        !.children = Resolve(@)]]

\* a header or sub-header row: its cells, then the next physical row
HeaderRow(cells) == IF cells = <<>> THEN <<>> ELSE cells \o <<Mark("jump")>>

NewLayoutAt(table, startRow) ==
  [table |-> table,
   todo |-> HeaderRow(table.headers) \o HeaderRow(table.subHeaders)
            \o <<Mark("bodyStart")>> \o Resolve(table.body)
            \o <<Mark("bodyEnd")>>
            \o table.footers,
   row |-> startRow, col |-> FirstCol, out |-> <<>>, ledger |-> {},
   bodyStart |-> 0, bodyEnd |-> 0, done |-> FALSE]

\* a table on a fresh worksheet
NewLayout(table) == NewLayoutAt(table, StartRow)

\* no table is being laid out
NoLayout ==
  [NewLayout([headers |-> <<>>, subHeaders |-> <<>>, body |-> <<>>,
              footers |-> <<>>]) EXCEPT !.done = TRUE]

\* Worksheet.addTable followed by the layout of the table
Layout ==
  /\ ~lay.done
  /\ lay' = LayoutRun(NewLayout(lay.table))
  /\ UNCHANGED <<bvars, ws, save, conv, reader>>

\* ---- tables
MaxCells == 3

RECURSIVE CountCells(_)
CountCells(cells) ==
  IF cells = <<>> THEN 0
  ELSE 1 + CountCells(Head(cells).children) + CountCells(Tail(cells))

RECURSIVE OpenDepth(_)
\* how deep the last cell of the body is nested
OpenDepth(cells) ==
  IF cells = <<>> THEN 0 ELSE 1 + OpenDepth(cells[Len(cells)].children)

RECURSIVE PushAt(_, _, _)
\* body.push(cell) at depth 0, children.push(cell) of the last cell below
PushAt(cells, depth, cell) ==
  IF depth = 0 THEN Append(cells, cell)
  ELSE [cells EXCEPT ![Len(cells)].children = PushAt(@, depth - 1, cell)]

\* the caller appends one more cell to the table it is describing
PushCell(depth, jump, rows, span) ==
  /\ ~lay.done
  /\ CountCells(lay.table.body) < MaxCells
  /\ depth <= OpenDepth(lay.table.body)
  /\ lay' = [lay EXCEPT !.table.body =
               PushAt(@, depth, LogicalCell("c", NoValue, jump, rows, span, <<>>))]
  /\ UNCHANGED <<bvars, ws, save, conv, reader>>

\* the caller appends a cell that declares mergeAs.fromKey = K
PushFromKey(depth, jump, K) ==
  /\ ~lay.done
  /\ CountCells(lay.table.body) < MaxCells
  /\ depth <= OpenDepth(lay.table.body)
  /\ lay' = [lay EXCEPT !.table.body =
               PushAt(@, depth, FromKeyCell("c", NoValue, jump, K, <<>>))]
  /\ UNCHANGED <<bvars, ws, save, conv, reader>>

Plain(key, span) == LogicalCell(key, NoValue, FALSE, 0, span, <<>>)

NoFrame == [headers |-> <<>>, subHeaders |-> <<>>, footers |-> <<>>]

FullFrame ==
  [headers |-> <<Plain("h", 2)>>,
   subHeaders |-> <<Plain("s1", 1), Plain("s2", 1)>>,
   footers |-> <<Plain("f", 1)>>]

EmptyTable(f) ==
  [headers |-> f.headers, subHeaders |-> f.subHeaders, body |-> <<>>,
   footers |-> f.footers]

\* ---- a sibling group with a lookahead merge: one row for each value of
\* the key "category", the row at position `at` led by a cell that merges
\* down while the category stays the same
MaxSiblings == 4
Categories == {"A", "B"}

GroupEntry(values, at, k) ==
  IF k = at
  THEN FromKeyCell("label", values[k], TRUE, "category",
                   <<LogicalCell("category", values[k], FALSE, 0, 1, <<>>)>>)
  ELSE LogicalCell("category", values[k], TRUE, 0, 1, <<>>)

GroupTable(values, at) ==
  [headers |-> <<>>, subHeaders |-> <<>>,
   body |-> [k \in 1..Len(values) |-> GroupEntry(values, at, k)],
   footers |-> <<>>,
   values |-> values, at |-> at]

\* ---- the worksheet assembler
\* a fresh worksheet: the write cursor on its first row, nothing written
NewSheet == [currentRow |-> StartRow, items |-> <<>>]

Max(S) == CHOOSE x \in S : \A y \in S : x >= y

\* what one call wrote: the rows first..last it took from the cursor, and the
\* last row that one of its cells reaches with its rowSpan
Written(kind, firstRow, lastRow, reach) ==
  [kind |-> kind, first |-> firstRow, last |-> lastRow, reach |-> reach]

\* a free-standing header or row: one physical row at the cursor
SheetAddLine(kind) ==
  /\ ws' = [currentRow |-> ws.currentRow + 1,
            items |-> Append(ws.items,
                             Written(kind, ws.currentRow, ws.currentRow,
                                     ws.currentRow))]
  /\ UNCHANGED <<bvars, lay, save, conv, reader>>

SheetAddHeader == SheetAddLine("header")

SheetAddRow == SheetAddLine("row")

\* addTable: a table is opened; its body is then pushed cell by cell
SheetAddTable(f) ==
  /\ lay.done
  /\ lay' = NewLayout(EmptyTable(f))
  /\ UNCHANGED <<bvars, ws, save, conv, reader>>

\* the table is moved up to the cursor it started from
SheetFinalizeRewinds(L) ==
  [currentRow |-> ws.currentRow,
   items |-> Append(ws.items,
                    Written("table", ws.currentRow, ws.currentRow, ws.currentRow))]

\* the worksheet after the table laid out as L went into its row stream: the
\* cursor is the engine's row cursor, past its last row if cells are on it
SheetAfterTable(L) ==
  LET rows == {L.out[i].row : i \in 1..Len(L.out)}
      next == IF L.row \in rows THEN L.row + 1 ELSE L.row
      reach == {L.out[i].row + L.out[i].rowSpan - 1 : i \in 1..Len(L.out)}
  IN [currentRow |-> next,
      items |-> Append(ws.items,
                       Written("table", ws.currentRow, next - 1,
                               Max(reach \cup {next - 1})))]

\* finalizeTable: the open table is laid out from the write cursor on
SheetFinalizeTable ==
  /\ ~lay.done
  /\ lay' = LayoutRun(NewLayoutAt(lay.table, ws.currentRow))
  /\ ws' = SheetAfterTable(lay')
  /\ UNCHANGED <<bvars, save, conv, reader>>

\* ---- the realistic table of generate-mergeAs-realrows.cjs
Suppliers == 20
Items == 8

RealChildren(s, i, nItems) ==
  (IF i = 1
   THEN <<LogicalCell("item", [s |-> s, i |-> i], FALSE, nItems - 1, 1, <<>>),
          LogicalCell("supplier", [s |-> s, i |-> i], FALSE, nItems - 1, 1, <<>>)>>
   ELSE <<>>)
  \o <<LogicalCell("contractedAmount", [s |-> s, i |-> i], FALSE, 0, 1, <<>>),
       LogicalCell("totalKilos", [s |-> s, i |-> i], FALSE, 0, 1, <<>>)>>

RealEntry(s, i, nItems) ==
  LogicalCell("itemName", [s |-> s, i |-> i], TRUE, 0, 1,
              RealChildren(s, i, nItems))

RealBody(nSuppliers, nItems) ==
  [k \in 1..(nSuppliers * nItems) |->
     RealEntry(((k - 1) \div nItems) + 1, ((k - 1) % nItems) + 1, nItems)]

RealTable(nSuppliers, nItems) ==
  [headers |-> <<>>,
   subHeaders |-> <<Plain("item", 1), Plain("supplier", 1), Plain("itemName", 1),
                   Plain("contractedAmount", 1), Plain("totalKilos", 1)>>,
   body |-> RealBody(nSuppliers, nItems),
   footers |-> <<>>,
   suppliers |-> nSuppliers, items |-> nItems]

\* ------------------------------------------------------ color.types.ts
\* A color is a string (a sequence of characters), an RGB object, a theme
\* object or a CMYK object.
MaxColorLen == 7
Chars == {"#", "f", "z"}
Channels == {0, 255}

HexChars == <<"0", "1", "2", "3", "4", "5", "6", "7",
              "8", "9", "a", "b", "c", "d", "e", "f">>
HexDigits == SeqToSet(HexChars)
DigitValue(c) == (CHOOSE k \in 1..Len(HexChars) : HexChars[k] = c) - 1

\* the number that is not one
NaN == -1

StringColor(text) == [kind |-> "string", text |-> text]
RgbColor(r, g, b) == [kind |-> "rgb", r |-> r, g |-> g, b |-> b]
ThemeColor(n) == [kind |-> "theme", theme |-> n]
CmykColor(c, m, y, k) == [kind |-> "cmyk", c |-> c, m |-> m, y |-> y, k |-> k]

Strings == UNION {[1..n -> Chars] : n \in 0..MaxColorLen}

Colors ==
  {StringColor(t) : t \in Strings}
    \cup {RgbColor(r, g, b) : r \in Channels, g \in Channels, b \in Channels}
    \cup {ThemeColor(1)}
    \cup {CmykColor(0, 0, 0, 255)}

\* String.prototype.startsWith, substring (0-based, end exclusive), replace
\* of the first occurrence of a character
startsWith(t, c) == Len(t) > 0 /\ t[1] = c

substring(t, from, to) ==
  SubSeq(t, from + 1, IF to < Len(t) THEN to ELSE Len(t))

replace(t, c) ==
  IF c \notin SeqToSet(t) THEN t
  ELSE LET k == Min({i \in 1..Len(t) : t[i] = c})
       IN SubSeq(t, 1, k - 1) \o SubSeq(t, k + 1, Len(t))

\* parseInt(t, 16): the longest prefix of hex digits, NaN when there is none
RECURSIVE parseDigits(_, _)
parseDigits(t, acc) ==
  IF t = <<>> \/ t[1] \notin HexDigits THEN acc
  ELSE parseDigits(Tail(t), 16 * acc + DigitValue(t[1]))

parseInt(t) ==
  IF t = <<>> \/ t[1] \notin HexDigits THEN NaN ELSE parseDigits(t, 0)

\* n.toString(16).padStart(2, '0')
RECURSIVE toString16(_)
toString16(n) ==
  IF n < 16 THEN <<HexChars[n + 1]>>
  ELSE toString16(n \div 16) \o <<HexChars[(n % 16) + 1]>>

padStart(t, n, c) == IF Len(t) >= n THEN t ELSE Repeat(c, n - Len(t)) \o t

BlackHex == <<"#", "0", "0", "0", "0", "0", "0">>
Rgb(r, g, b) == [r |-> r, g |-> g, b |-> b]
BlackRgb == Rgb(0, 0, 0)

colorToHex(color) ==
  IF color.kind = "string"
  THEN IF startsWith(color.text, "#") THEN color.text ELSE <<"#">> \o color.text
  ELSE IF color.kind = "rgb"
  THEN <<"#">> \o padStart(toString16(color.r), 2, "0")
             \o padStart(toString16(color.g), 2, "0")
             \o padStart(toString16(color.b), 2, "0")
  ELSE BlackHex

colorToRgb(color) ==
  IF color.kind = "string"
  THEN LET hex == replace(color.text, "#")
       IN Rgb(parseInt(substring(hex, 0, 2)),
              parseInt(substring(hex, 2, 4)),
              parseInt(substring(hex, 4, 6)))
  ELSE IF color.kind = "rgb"
  THEN Rgb(color.r, color.g, color.b)
  ELSE BlackRgb

\* ---- PDFPage.convertColor
\* The string handed to the backend: rgb(...) with each channel over 255 (kept
\* as its numerator; NaN / 255 is NaN), cmyk(...), or the text as it came.
PdfColor(fn, args, text) == [fn |-> fn, args |-> args, text |-> text]
BlackPdf == PdfColor("rgb", <<0, 0, 0>>, <<>>)

convertColor(color) ==
  IF color.kind = "string"
  THEN IF startsWith(color.text, "#")
       THEN LET hex == substring(color.text, 1, Len(color.text))
            IN PdfColor("rgb", <<parseInt(substring(hex, 0, 2)),
                                 parseInt(substring(hex, 2, 4)),
                                 parseInt(substring(hex, 4, 6))>>, <<>>)
       ELSE PdfColor("text", <<>>, color.text)
  ELSE IF color.kind = "rgb"
  THEN PdfColor("rgb", <<color.r, color.g, color.b>>, <<>>)
  ELSE IF color.kind = "cmyk"
  THEN PdfColor("cmyk", <<color.c, color.m, color.y, color.k>>, <<>>)
  ELSE BlackPdf

\* a color given to the three conversions, each applied once
NewConversion(color) ==
  [color |-> color, did |-> {}, hex |-> <<>>, rgb |-> BlackRgb,
   pdf |-> PdfColor("none", <<>>, <<>>)]

NoConversion == NewConversion(ThemeColor(1))

Converts(fn) ==
  /\ fn \notin conv.did
  /\ conv' = [conv EXCEPT
                !.did = @ \cup {fn},
                !.hex = IF fn = "colorToHex" THEN colorToHex(conv.color) ELSE @,
                !.rgb = IF fn = "colorToRgb" THEN colorToRgb(conv.color) ELSE @,
                !.pdf = IF fn = "convertColor" THEN convertColor(conv.color) ELSE @]
  /\ UNCHANGED <<bvars, lay, ws, save, reader>>

ColorToHex == Converts("colorToHex")
ColorToRgb == Converts("colorToRgb")
ConvertColor == Converts("convertColor")

\* ---------------------------------------------------------- ExcelReader
\* A workbook file: whether ExcelJS loads it, and its sheets, each the number
\* of its cells. Options: outputFormat (of the call and of the constructor's
\* defaults), sheetName (an index, or undefined), and a mapper.
MaxSheets == 2
MaxReadCells == 1

Workbooks ==
  {[loads |-> l, sheets |-> sh] :
     l \in BOOLEAN,
     sh \in UNION {[1..n -> 0..MaxReadCells] : n \in 0..MaxSheets}}

\* options.sheetName is undefined
NoSheetName == -1

OutputFormats == {"undefined", "worksheet", "detailed", "flat"}
Mappers == {"undefined", "same", "throws"}

ReaderOptions ==
  [outputFormat : OutputFormats, defaultFormat : OutputFormats,
   sheetName : {NoSheetName, 0}, mapper : Mappers]

\* `{...this.defaultOptions, ...options}` then `|| OutputFormat.WORKSHEET`
MergedFormat(o) ==
  LET f == IF o.outputFormat # "undefined" THEN o.outputFormat ELSE o.defaultFormat
  IN IF f = "undefined" THEN "worksheet" ELSE f

\* the sheets a conversion processes: workbook.worksheets[sheetName] if it
\* is there, all of them when sheetName is undefined
SheetsToProcess(wb, o) ==
  IF o.sheetName = NoSheetName THEN 1..Len(wb.sheets)
  ELSE IF o.sheetName + 1 <= Len(wb.sheets) THEN {o.sheetName + 1} ELSE {}

RECURSIVE SumCells(_, _)
SumCells(wb, S) ==
  IF S = {} THEN 0
  ELSE LET k == Min(S) IN wb.sheets[k] + SumCells(wb, S \ {k})

convertWorkbookToJson(wb, o) ==
  LET S == SheetsToProcess(wb, o)
  IN [sheets |-> [k \in S |-> wb.sheets[k]], totalSheets |-> Cardinality(S)]

convertToDetailedFormat(wb, o) ==
  LET n == SumCells(wb, SheetsToProcess(wb, o))
  IN [cells |-> n, totalCells |-> n]

convertToFlatFormat(wb, o) ==
  LET S == SheetsToProcess(wb, o)
  IN IF Cardinality(S) = 1
     THEN LET k == Min(S)
          IN [data |-> wb.sheets[k], totalRows |-> wb.sheets[k], sheet |-> k]
     ELSE [sheets |-> [k \in S |-> wb.sheets[k]], totalSheets |-> Cardinality(S)]

Converted(wb, o) ==
  IF MergedFormat(o) = "detailed" THEN convertToDetailedFormat(wb, o)
  ELSE IF MergedFormat(o) = "flat" THEN convertToFlatFormat(wb, o)
  ELSE convertWorkbookToJson(wb, o)

\* the success result: the representation under its key of the unified payload
Unified(format, rep) ==
  IF format = "detailed" THEN [detailed |-> rep]
  ELSE IF format = "flat" THEN [flat |-> rep]
  ELSE [workbook |-> rep]

ReadResult(ok, type, code, data) ==
  [success |-> ok, type |-> type, code |-> code, data |-> data]

fromBuffer(wb, o) ==
  IF ~wb.loads THEN ReadResult(FALSE, "FILE_ERROR", "READ_FAILED", <<>>)
  ELSE IF o.mapper = "throws"
  THEN ReadResult(FALSE, "VALIDATION_ERROR", "MAPPER_ERROR", <<>>)
  ELSE ReadResult(TRUE, "OK", "OK", Unified(MergedFormat(o), Converted(wb, o)))

NewRead(wb, o) ==
  [pc |-> "idle", workbook |-> wb, options |-> o,
   result |-> ReadResult(FALSE, "NONE", "NONE", <<>>)]

NoRead ==
  NewRead([loads |-> FALSE, sheets |-> <<>>],
          [outputFormat |-> "undefined", defaultFormat |-> "undefined",
           sheetName |-> NoSheetName, mapper |-> "undefined"])

FromBuffer ==
  /\ reader.pc = "idle"
  /\ reader' = [reader EXCEPT !.pc = "done",
                              !.result = fromBuffer(reader.workbook, reader.options)]
  /\ UNCHANGED <<bvars, lay, ws, save, conv>>

\* ------------------------------------------------------ specifications
NoOutcome == Outcome("new", "void", NoResult)

\* config.maxPages: the constructor's default, and a limit a caller gives
DefaultMaxPages == 1000
LowMaxPages == 1

\* a builder as its constructor leaves it
BuilderInit ==
  /\ pages = <<>>
  /\ currentPage = NoPage
  /\ isBuilding = FALSE
  /\ nextId = 1
  /\ globalHeader \in 0..MaxGlobal
  /\ globalFooter \in 0..MaxGlobal
  /\ enableEvents \in BOOLEAN
  /\ styles = {}
  /\ theme = FALSE
  /\ metadata \in BOOLEAN
  /\ events = NoEvents
  /\ stats = initializeStats
  /\ calls = [t \in Calls |-> IdleCall]
  /\ last = NoOutcome
  /\ maxPages \in {LowMaxPages, DefaultMaxPages}

\* nothing is being saved, converted or read
Aside ==
  /\ save = IdleSave
  /\ conv = NoConversion
  /\ reader = NoRead

Init ==
  /\ BuilderInit
  /\ lay = NoLayout
  /\ ws = NewSheet
  /\ Aside

PageOps ==
  \/ \E n \in Names, h \in BOOLEAN : nextId <= MaxPageObjects /\ AddPage(n, h)
  \/ \E n \in Names : RemovePage(n)
  \/ \E n \in Names : SetCurrentPage(n)
  \/ \E i \in 1..MaxPageObjects : PageAddHeader(i)
  \/ \E i \in 1..MaxPageObjects : PageAddFooter(i)
  \/ \E i \in 1..MaxPageObjects : PageAddContent(i)
  \/ Validate
  \/ Clear
  \/ CreateFromJSON

ConfigOps ==
  \/ SetMetadata
  \/ \E n \in StyleNames : AddStyle(n)
  \/ SetTheme
  \/ \E n \in 0..MaxGlobal : SetGlobalHeader(n)
  \/ \E n \in 0..MaxGlobal : SetGlobalFooter(n)

BuildOps ==
  \/ \E t \in Calls, f \in BOOLEAN : BuildCall(t, f)
  \/ \E t \in Calls, f \in BOOLEAN : BuildResume(t, f)
  \/ \E t \in Calls, ok \in BOOLEAN : BuildEnd(t, ok)

Next == PageOps \/ ConfigOps \/ BuildOps

\* the whole builder
Spec == Init /\ [][Next]_vars

\* page management and validation on a builder that is not building
InitPages ==
  /\ Init
  /\ globalHeader = 0
  /\ globalFooter = 0

NextPages ==
  \/ \E n \in Names, h \in BOOLEAN : nextId <= MaxPageObjects /\ AddPage(n, h)
  \/ \E n \in Names : RemovePage(n)
  \/ \E n \in Names : SetCurrentPage(n)
  \/ \E i \in 1..MaxPageObjects : PageAddHeader(i)
  \/ \E i \in 1..MaxPageObjects : PageAddFooter(i)
  \/ \E i \in 1..MaxPageObjects : PageAddContent(i)
  \/ Validate
  \/ Clear
  \/ CreateFromJSON
  \/ SetMetadata

SpecPages == InitPages /\ [][NextPages]_vars

\* build() calls interleaved, at every await, with the calls that change
\* what a build reads
InitBuild ==
  /\ Init
  /\ maxPages = DefaultMaxPages
  /\ metadata = FALSE
  /\ globalHeader = globalFooter

NextBuild ==
  \/ \E n \in Names, h \in BOOLEAN : nextId <= MaxBuildPages /\ AddPage(n, h)
  \/ \E i \in 1..MaxBuildPages : PageAddContent(i)
  \/ Clear
  \/ \E t \in Calls, f \in BOOLEAN : BuildCall(t, f)
  \/ \E t \in Calls, f \in BOOLEAN : BuildResume(t, f)
  \/ \E t \in Calls, ok \in BOOLEAN : BuildEnd(t, ok)

SpecBuild == InitBuild /\ [][NextBuild]_vars

\* clear() at any point of one build() call, on a builder that is given
\* styles and a theme
NextClear ==
  \/ \E n \in Names, h \in BOOLEAN : nextId <= MaxBuildPages /\ AddPage(n, h)
  \/ \E i \in 1..MaxBuildPages : PageAddContent(i)
  \/ Clear
  \/ \E n \in StyleNames : AddStyle(n)
  \/ SetTheme
  \/ \E f \in BOOLEAN : BuildCall(1, f)
  \/ \E f \in BOOLEAN : BuildResume(1, f)
  \/ \E ok \in BOOLEAN : BuildEnd(1, ok)

SpecClear == InitBuild /\ [][NextClear]_vars

IdleBuilder ==
  /\ BuilderInit
  /\ globalHeader = 0
  /\ globalFooter = 0
  /\ enableEvents = TRUE
  /\ metadata = FALSE
  /\ maxPages = DefaultMaxPages

\* the layout engine on every table of at most MaxCells body cells
InitLayout ==
  /\ IdleBuilder
  /\ Aside
  /\ ws = NewSheet
  /\ lay \in {NewLayout(EmptyTable(f)) : f \in {NoFrame, FullFrame}}

NextLayout ==
  \/ \E d \in 0..(MaxCells - 1), j \in BOOLEAN, r \in MergeRows, c \in ColSpans :
        PushCell(d, j, r, c)
  \/ Layout

SpecLayout == InitLayout /\ [][NextLayout]_vars

\* the layout engine on the realistic table, for every size up to the example's
InitRealRows ==
  /\ IdleBuilder
  /\ Aside
  /\ ws = NewSheet
  /\ lay \in {NewLayout(RealTable(s, i)) : s \in 1..Suppliers, i \in 1..Items}

NextRealRows == Layout

SpecRealRows == InitRealRows /\ [][NextRealRows]_vars

\* a worksheet receiving free-standing headers and rows and tables
MaxWritten == 2
MaxSheetCells == 2

InitSheet ==
  /\ IdleBuilder
  /\ Aside
  /\ lay = NoLayout
  /\ ws = NewSheet

NextSheet ==
  \/ Len(ws.items) < MaxWritten /\ SheetAddHeader
  \/ Len(ws.items) < MaxWritten /\ SheetAddRow
  \/ \E f \in {NoFrame, FullFrame} : Len(ws.items) < MaxWritten /\ SheetAddTable(f)
  \/ \E d \in 0..1, j \in BOOLEAN, r \in MergeRows :
       CountCells(lay.table.body) < MaxSheetCells /\ PushCell(d, j, r, 1)
  \/ SheetFinalizeTable

SpecSheet == InitSheet /\ [][NextSheet]_vars

\* the layout engine on tables with malformed merge descriptors: negative
\* mergeAs.rows, mergeAs.fromKey naming a key no cell has
MalformedRows == {-1}
FromKeys == {"c", "missing"}

NextTotal ==
  \/ \E d \in 0..(MaxCells - 1), j \in BOOLEAN, r \in MalformedRows \cup {0, 1} :
        PushCell(d, j, r, 1)
  \/ \E d \in 0..(MaxCells - 1), j \in BOOLEAN, K \in FromKeys :
        PushFromKey(d, j, K)
  \/ Layout

SpecTotal == InitLayout /\ [][NextTotal]_vars

\* the layout engine on every sibling group of at most MaxSiblings rows
InitFromKey ==
  /\ IdleBuilder
  /\ Aside
  /\ ws = NewSheet
  /\ \E n \in 1..MaxSiblings :
       \E values \in [1..n -> Categories], at \in 1..n :
         lay = NewLayout(GroupTable(values, at))

NextFromKey == Layout

SpecFromKey == InitFromKey /\ [][NextFromKey]_vars

\* the three color conversions on every color
InitColor ==
  /\ IdleBuilder
  /\ lay = NoLayout
  /\ ws = NewSheet
  /\ save = IdleSave
  /\ reader = NoRead
  /\ conv \in {NewConversion(c) : c \in Colors}

NextColor == ColorToHex \/ ColorToRgb \/ ConvertColor

SpecColor == InitColor /\ [][NextColor]_vars

\* one saveToStream() beside the calls that change what its build reads,
\* and a build() of the caller's own
InitStream ==
  /\ InitBuild
  /\ globalHeader = 0

NextStream ==
  \/ \E n \in Names, h \in BOOLEAN : nextId <= MaxBuildPages /\ AddPage(n, h)
  \/ \E i \in 1..MaxBuildPages : PageAddContent(i)
  \/ \E t \in Calls, f \in BOOLEAN : BuildCall(t, f)
  \/ \E t \in Calls, f \in BOOLEAN : BuildResume(t, f)
  \/ \E t \in Calls, ok \in BOOLEAN : BuildEnd(t, ok)
  \/ \E t \in Calls, b \in BOOLEAN, f \in BOOLEAN : SaveToStream(t, b, f)
  \/ \E throws \in BOOLEAN : SaveResume(throws)
  \/ \E err \in BOOLEAN : SaveCallback(err)

SpecStream == InitStream /\ [][NextStream]_vars

\* fromBuffer on every workbook and option set
InitReader ==
  /\ IdleBuilder
  /\ lay = NoLayout
  /\ ws = NewSheet
  /\ save = IdleSave
  /\ conv = NoConversion
  /\ reader \in {NewRead(wb, o) : wb \in Workbooks, o \in ReaderOptions}

NextReader == FromBuffer

SpecReader == InitReader /\ [][NextReader]_vars

\* build() calls one after another or overlapping, on pages that are added
\* and filled meanwhile; the event loop runs every continuation and the
\* backend ends every document with 'end' or 'error'
NextRebuild ==
  \/ \E n \in Names, h \in BOOLEAN : nextId <= MaxBuildPages /\ AddPage(n, h)
  \/ \E i \in 1..MaxBuildPages : PageAddContent(i)
  \/ \E t \in Calls, f \in BOOLEAN : BuildCall(t, f)
  \/ \E t \in Calls, f \in BOOLEAN : BuildResume(t, f)
  \/ \E t \in Calls, ok \in BOOLEAN : BuildEnd(t, ok)

SpecRebuild ==
  /\ InitBuild
  /\ [][NextRebuild]_vars
  /\ WF_vars(\E t \in Calls, f \in BOOLEAN : BuildResume(t, f))
  /\ WF_vars(\E t \in Calls, ok \in BOOLEAN : BuildEnd(t, ok))

\* build() calls on a page map that grows and shrinks between them, a name
\* being free again once its page is removed
MaxOrderPages == 3

InitOrder ==
  /\ InitBuild
  /\ globalHeader = 0
  /\ enableEvents

NextOrder ==
  \/ \E n \in Names, h \in BOOLEAN :
       ~isBuilding /\ nextId <= MaxOrderPages /\ AddPage(n, h)
  \/ \E n \in Names : ~isBuilding /\ RemovePage(n)
  \/ \E t \in Calls, f \in BOOLEAN : BuildCall(t, f)
  \/ \E t \in Calls, f \in BOOLEAN : BuildResume(t, f)
  \/ \E t \in Calls, ok \in BOOLEAN : BuildEnd(t, ok)

SpecOrder == InitOrder /\ [][NextOrder]_vars

\* one saveToFile() beside a build() of the caller's own
NextFile ==
  \/ \E n \in Names, h \in BOOLEAN : nextId <= MaxBuildPages /\ AddPage(n, h)
  \/ \E i \in 1..MaxBuildPages : PageAddContent(i)
  \/ \E t \in Calls, f \in BOOLEAN : BuildCall(t, f)
  \/ \E t \in Calls, f \in BOOLEAN : BuildResume(t, f)
  \/ \E t \in Calls, ok \in BOOLEAN : BuildEnd(t, ok)
  \/ \E t \in Calls, b \in BOOLEAN, d \in BOOLEAN, f \in BOOLEAN : SaveToFile(t, b, d, f)
  \/ \E t \in Calls, ok \in BOOLEAN, f \in BOOLEAN : SaveMkdir(t, ok, f)
  \/ SaveFileResume
  \/ \E ok \in BOOLEAN : SaveWriteFile(ok)

SpecFile == InitStream /\ [][NextFile]_vars

\* ------------------------------------------------------------ properties
InFlight == {u \in Calls : calls[u].pc \in {"pages", "ending"}}

\* at most one build is in flight, and isBuilding says whether one is
OneBuildInFlight ==
  /\ Cardinality(InFlight) <= 1
  /\ isBuilding <=> InFlight # {}

\* a build() call entered while another one is in flight
RejectedBuildStep ==
  \A t \in Calls :
    (calls[t].pc = "idle" /\ calls'[t].pc # "idle" /\ InFlight # {}) =>
      /\ calls'[t] = Returned(error("BUILD_ERROR", "BUILD_IN_PROGRESS"))
      /\ \A u \in Calls \ {t} : calls'[u] = calls[u]
      /\ isBuilding /\ isBuilding'
      /\ UNCHANGED <<pages, events, stats>>

\* C1: a build() call made while an earlier build() is suspended at any of
\* its awaits returns BUILD_ERROR / BUILD_IN_PROGRESS, renders nothing, emits
\* nothing, leaves isBuilding set and leaves the earlier call as it was, so
\* that the earlier call completes as it would have alone; at most one build
\* is ever in flight.
C1_ConcurrentBuildRejected == []OneBuildInFlight /\ [][RejectedBuildStep]_vars

\* C1 witness: the second call was rejected and the first went on to render
\* its page and return the buffer
C1_Witness ==
  /\ calls[2].pc = "done"
  /\ calls[2].result = error("BUILD_ERROR", "BUILD_IN_PROGRESS")
  /\ calls[1].pc = "done"
  /\ calls[1].result.success
  /\ calls[1].result.bytes = 2

\* C6 as stated: build() on a builder that never held a page ends in
\* VALIDATION_ERROR with code NO_PAGES or EMPTY_PAGE and without a buffer.
C6_EmptyBuildIsValidationError ==
  \A t \in Calls :
    (nextId = 1 /\ calls[t].pc = "done"
       /\ calls[t].result.code # "BUILD_IN_PROGRESS") =>
      /\ ~calls[t].result.success
      /\ calls[t].result.type = "VALIDATION_ERROR"
      /\ calls[t].result.code \in {"NO_PAGES", "EMPTY_PAGE"}
      /\ calls[t].result.bytes = 0

\* every non-hidden page has at least one block added to it
AllVisibleHaveContent(ps) ==
  \A i \in 1..Len(ps) : ~ps[i].hidden => ps[i].content >= 1

ValidateStep ==
  Validate =>
    LET r == last'.res
    IN /\ last'.op = "validate"
       /\ r.success <=> (Len(pages) >= 1 /\ AllVisibleHaveContent(pages))
       /\ Len(pages) = 0 => r = error("VALIDATION_ERROR", "NO_PAGES")
       /\ (Len(pages) >= 1 /\ ~AllVisibleHaveContent(pages)) =>
            r = error("VALIDATION_ERROR", "VALIDATION_FAILED")
       /\ \A i \in 1..Len(pages) :
            /\ pages[i].hidden => PageValidate(pages[i]).success
            /\ (~pages[i].hidden /\ pages[i].content = 0) =>
                 PageValidate(pages[i]) = error("VALIDATION_ERROR", "EMPTY_PAGE")
            /\ (~pages[i].hidden /\ pages[i].content >= 1) =>
                 PageValidate(pages[i]).success
       /\ UNCHANGED <<pages, currentPage, isBuilding, nextId, globalHeader,
                      globalFooter, enableEvents, styles, theme, metadata, events, stats, calls>>

\* C7: validate() succeeds exactly when there is at least one page and every
\* non-hidden page has a block; without pages it is VALIDATION_ERROR/NO_PAGES;
\* with an empty non-hidden page it is VALIDATION_ERROR/VALIDATION_FAILED, that
\* page's own validate() being EMPTY_PAGE; hidden pages always validate; and
\* validate() changes no builder or page state.
C7_ValidateSemantics == [][ValidateStep]_vars

\* C7 witness: validate() has just failed on an empty visible page while an
\* empty hidden page was accepted
C7_Witness ==
  /\ last = Outcome("validate", "result",
                    error("VALIDATION_ERROR", "VALIDATION_FAILED"))
  /\ \E i, j \in 1..Len(pages) :
       /\ pages[i].hidden /\ pages[i].content = 0
       /\ ~pages[j].hidden /\ pages[j].content = 0

\* C8 as stated: no public operation reports an expected failure by throwing.
C8_NoOperationThrows == last.kind # "throw"

PageIds(ps) == {ps[i].id : i \in 1..Len(ps)}

AddPageStep ==
  \A n \in Names, h \in BOOLEAN :
    AddPage(n, h) =>
      IF HasPage(pages, n)
      THEN /\ last' = Outcome("addPage", "throw", NoResult)
           /\ pages' = pages
           /\ currentPage' = currentPage
      ELSE /\ last' = Outcome("addPage", "page", NoResult)
           /\ Len(pages') = Len(pages) + 1
           /\ SubSeq(pages', 1, Len(pages)) = pages
           /\ pages'[Len(pages')].name = n
           /\ pages'[Len(pages')].id \notin PageIds(pages)
           /\ currentPage' = pages'[Len(pages')].id

\* C9: addPage with a new name adds exactly one page under that name, after
\* the others, makes it current and returns it; with a name in use it throws
\* and leaves the pages, the existing page object and currentPage as they were.
C9_AddPage == [][AddPageStep]_vars

\* C9 witness: a duplicate addPage has just thrown on a builder that holds a
\* current page
C9_Witness ==
  /\ last = Outcome("addPage", "throw", NoResult)
  /\ Len(pages) >= 1
  /\ currentPage \in PageIds(pages)

RemovePageStep ==
  \A n \in Names :
    RemovePage(n) =>
      IF HasPage(pages, n)
      THEN LET i == PageIndex(pages, n)
           IN /\ last' = Outcome("removePage", "true", NoResult)
              /\ Len(pages') = Len(pages) - 1
              /\ \A k \in 1..Len(pages') :
                   pages'[k] = IF k < i THEN pages[k] ELSE pages[k + 1]
              /\ ~HasPage(pages', n)
              /\ currentPage' = NoPage <=>
                   (currentPage = pages[i].id \/ currentPage = NoPage)
              /\ currentPage' \in {NoPage, currentPage}
      ELSE /\ last' = Outcome("removePage", "false", NoResult)
           /\ UNCHANGED <<pages, currentPage, isBuilding, nextId, globalHeader,
                          globalFooter, enableEvents, styles, theme, metadata, events, stats,
                          calls>>

\* C10: removePage returns true and removes exactly the named page, the others
\* keeping their order, and clears currentPage if and only if the removed page
\* was the current one; for an unknown name it returns false and changes
\* nothing.
C10_RemovePage == [][RemovePageStep]_vars

\* C10 witness: a page that was not the current one has just been removed and
\* the current page is still the current page
C10_Witness ==
  /\ last = Outcome("removePage", "true", NoResult)
  /\ Len(pages) = 1
  /\ currentPage = pages[1].id

\* ---- the layout engine
\* the cells emitted for the body: those after the header and sub-header
\* cells and before the footer cells
BodyOut(L) ==
  SubSeq(L.out,
         CountCells(L.table.headers) + CountCells(L.table.subHeaders) + 1,
         Len(L.out) - CountCells(L.table.footers))

\* the physical rows on which a body cell is anchored
BodyRows(L) == {BodyOut(L)[i].row : i \in 1..Len(BodyOut(L))}

RECURSIVE CountJumps(_)
CountJumps(cells) ==
  IF cells = <<>> THEN 0
  ELSE (IF Head(cells).jump THEN 1 ELSE 0)
         + CountJumps(Head(cells).children) + CountJumps(Tail(cells))

RECURSIVE NoMerges(_)
NoMerges(cells) ==
  \/ cells = <<>>
  \/ /\ Head(cells).rows = 0
     /\ NoMerges(Head(cells).children)
     /\ NoMerges(Tail(cells))

RECURSIVE Placement(_)
\* the order in which cells are placed and rows are closed
Placement(cells) ==
  IF cells = <<>> THEN <<>>
  ELSE <<"cell">> \o Placement(Head(cells).children)
         \o (IF Head(cells).jump THEN <<"jump">> ELSE <<>>)
         \o Placement(Tail(cells))

\* the cells that are the first of a physical row
RowStarts(order) ==
  Cardinality({k \in 1..Len(order) :
                 order[k] = "cell" /\ (k = 1 \/ order[k - 1] = "jump")})

\* C2: the emitted cells have non-decreasing row indexes and, within one row,
\* strictly increasing column indexes, so no two cells share an anchor and no
\* cell is emitted for a row earlier than one already emitted.
C2_EmissionOrder ==
  /\ \A i \in 1..(Len(lay.out) - 1) :
       /\ lay.out[i].row <= lay.out[i + 1].row
       /\ lay.out[i].row = lay.out[i + 1].row =>
            lay.out[i].col < lay.out[i + 1].col
  /\ \A i, j \in 1..Len(lay.out) :
       (lay.out[i].row = lay.out[j].row /\ lay.out[i].col = lay.out[j].col) =>
         i = j

\* C2 witness: a table laid out over several rows, one of them holding two
\* cells and a later one opened by a jump in the body
C2_Witness ==
  /\ lay.done
  /\ \E i, j \in 1..Len(BodyOut(lay)) :
       /\ i + 1 < j
       /\ BodyOut(lay)[i].row = BodyOut(lay)[i + 1].row
       /\ BodyOut(lay)[i + 1].row < BodyOut(lay)[j].row

\* C3: a cell declared with mergeAs.rows = N >= 1 is emitted once, with
\* rowSpan N + 1, and no other cell is emitted at its column in the N rows
\* below its anchor, whatever cells follow it.
C3_MergeContainment ==
  /\ lay.done =>
       Len(lay.out) = CountCells(lay.table.headers)
                        + CountCells(lay.table.subHeaders)
                        + CountCells(lay.table.body)
                        + CountCells(lay.table.footers)
  /\ \A i \in 1..Len(lay.out) :
       lay.out[i].rows >= 1 =>
         /\ lay.out[i].rowSpan = lay.out[i].rows + 1
         /\ \A j \in 1..Len(lay.out), k \in 1..lay.out[i].rows :
              ~(/\ lay.out[j].row = lay.out[i].row + k
                /\ lay.out[j].col = lay.out[i].col)

\* C3 witness: the row below a merged cell was reached with the column cursor
\* on the covered column, and the cell placed there went one column further
C3_Witness ==
  /\ lay.done
  /\ \E i, j \in 1..Len(BodyOut(lay)) :
       /\ BodyOut(lay)[i].rows >= 1
       /\ BodyOut(lay)[i].col = FirstCol
       /\ BodyOut(lay)[j].row = BodyOut(lay)[i].row + 1
       /\ BodyOut(lay)[j].col = FirstCol + 1

SupplierOut(L, s) ==
  {c \in SeqToSet(BodyOut(L)) : c.value.s = s}

\* the physical rows of supplier s: one for each of its items
SupplierRows(L, s) ==
  (L.bodyStart + (s - 1) * L.table.items)..(L.bodyStart + s * L.table.items - 1)

\* C5: the realistic table of S suppliers and I items occupies exactly S * I
\* physical rows; each supplier's item and supplier cells are emitted once, on
\* the supplier's first row, with a span of I rows, which are exactly the rows
\* of that supplier's entries, so the merges of different suppliers are
\* disjoint.
C5_RealRows ==
  lay.done =>
    LET S == lay.table.suppliers
        I == lay.table.items
    IN /\ BodyRows(lay) = lay.bodyStart..(lay.bodyStart + S * I - 1)
       /\ Cardinality(BodyRows(lay)) = S * I
       /\ \A s \in 1..S :
            /\ {c.row : c \in {d \in SupplierOut(lay, s) : d.key = "itemName"}}
                 = SupplierRows(lay, s)
            /\ \A k \in {"item", "supplier"} :
                 LET m == {c \in SupplierOut(lay, s) : c.key = k}
                 IN /\ Cardinality(m) = 1
                    /\ \A c \in m :
                         /\ c.rowSpan = I
                         /\ c.row..(c.row + c.rowSpan - 1) = SupplierRows(lay, s)
       /\ \A c, d \in SeqToSet(BodyOut(lay)) :
            (c # d /\ c.col = d.col) =>
              (c.row..(c.row + c.rowSpan - 1))
                \cap (d.row..(d.row + d.rowSpan - 1)) = {}

\* C5 witness: the example's own size, 20 suppliers of 8 items, laid out on
\* 160 rows with merges of span 8
C5_Witness ==
  /\ lay.done
  /\ lay.table.suppliers = 20
  /\ lay.table.items = 8
  /\ Cardinality(BodyRows(lay)) = 160
  /\ \E c \in SeqToSet(BodyOut(lay)) : c.key = "supplier" /\ c.rowSpan = 8

ClearStep ==
  Clear =>
    /\ pages' = <<>>
    /\ currentPage' = NoPage
    /\ metadata' = FALSE
    /\ stats'.totalPages = 0 /\ stats'.fileSize = 0
    /\ UNCHANGED <<styles, theme, globalHeader, globalFooter, isBuilding,
                   calls, events, enableEvents>>

\* C11: clear() leaves no pages, no current page, no metadata and zeroed
\* statistics, and leaves the named styles, the theme, the global header and
\* footer and isBuilding as they were; a build in flight therefore keeps the
\* guard closed across a clear().
C11_ClearFrame == [][ClearStep]_vars /\ [](InFlight # {} => isBuilding)

\* C11 witness: clear() ran while a build was in flight, on a builder with a
\* style, a theme and a global header: the pages are gone, the guard is closed
C11_Witness ==
  /\ InFlight # {}
  /\ isBuilding
  /\ nextId > 1
  /\ pages = <<>>
  /\ currentPage = NoPage
  /\ styles # {}
  /\ theme
  /\ globalHeader >= 1

\* a build() call returns
BuildReturns(t) == calls[t].pc # "done" /\ calls'[t].pc = "done"

\* C12 as stated: after a successful build() totalPages is the number of pages
\* in the built document and fileSize the byte length of the buffer; a build
\* that fails or is rejected leaves both unchanged.
C12_TotalPagesIsDocumentPages ==
  /\ [][\A t \in Calls :
       (BuildReturns(t) /\ calls'[t].result.success) =>
         /\ stats'.totalPages = Len(calls[t].doc)
         /\ stats'.fileSize = calls'[t].result.bytes
         /\ calls'[t].result.bytes = ByteLength(calls[t].doc)]_vars
  /\ [][\A t \in Calls :
          (BuildReturns(t) /\ ~calls'[t].result.success) => stats' = stats]_vars

\* C13 as stated: once build() has finalized a page (isBuilt), no later call
\* changes the content stored in it.
C13_FinalizedPageIsFrozen ==
  [][\A i \in 1..Len(pages) :
       (pages[i].isBuilt /\ i <= Len(pages') /\ pages'[i].id = pages[i].id) =>
         /\ pages'[i].content = pages[i].content
         /\ pages'[i].body = pages[i].body]_vars

\* ---- the worksheet assembler
CursorNeverDecreases == ws'.currentRow >= ws.currentRow

WrittenRowsDisjoint ==
  /\ \A i, j \in 1..Len(ws.items) :
       i < j => ws.items[i].last < ws.items[j].first
  /\ \A i \in 1..Len(ws.items) :
       /\ ws.items[i].last < ws.currentRow
       /\ ws.items[i].first <= ws.items[i].last + 1
  /\ (lay.done /\ lay.out # <<>>) =>
       \E k \in 1..Len(ws.items) :
         /\ ws.items[k].kind = "table"
         /\ \A i \in 1..Len(lay.out) :
              lay.out[i].row \in ws.items[k].first..ws.items[k].last

Malformed(cell) ==
  \/ cell.rows < 0
  \/ cell.fromKey # "" /\ ~HasKey(cell, cell.fromKey)

RECURSIVE Sanitize(_)
\* the same cells, the malformed descriptors removed
Sanitize(cells) ==
  [i \in 1..Len(cells) |->
     [cells[i] EXCEPT
        !.rows = IF Malformed(cells[i]) THEN 0 ELSE @,
        !.fromKey = IF Malformed(cells[i]) THEN "" ELSE @,
        !.children = Sanitize(@)]]

RECURSIVE Preorder(_)
\* the cells in the order they are placed
Preorder(cells) ==
  IF cells = <<>> THEN <<>>
  ELSE <<Head(cells)>> \o Preorder(Head(cells).children) \o Preorder(Tail(cells))

\* where each cell went and what it spans
Grid(L) ==
  [i \in 1..Len(L.out) |->
     [row |-> L.out[i].row, col |-> L.out[i].col,
      rowSpan |-> L.out[i].rowSpan, colSpan |-> L.out[i].colSpan,
      key |-> L.out[i].key, value |-> L.out[i].value]]

\* C15: layout is total: every table, with negative mergeAs.rows or a
\* mergeAs.fromKey naming a key that no cell has, is laid out to the end; each
\* malformed descriptor gives a cell of rowSpan 1, and every cell is placed
\* exactly where it is placed when the malformed descriptors are removed.
C15_LayoutTotal ==
  /\ ~lay.done =>
       LET L == LayoutRun(NewLayout(lay.table))
       IN L.done /\ L.todo = <<>> /\ Len(L.out) >= CountCells(lay.table.body)
  /\ lay.done =>
       /\ lay.todo = <<>>
       /\ Len(BodyOut(lay)) = Len(Preorder(lay.table.body))
       /\ \A k \in 1..Len(BodyOut(lay)) :
            Malformed(Preorder(lay.table.body)[k]) => BodyOut(lay)[k].rowSpan = 1
       /\ Grid(lay) =
            Grid(LayoutRun(NewLayout([lay.table EXCEPT !.body = Sanitize(@)])))

\* C15 witness: a cell with negative mergeAs.rows and one with an unknown
\* fromKey were laid out, and the row below the first has a cell in its column
C15_Witness ==
  /\ lay.done
  /\ \E i, j, k \in 1..Len(BodyOut(lay)) :
       /\ Preorder(lay.table.body)[i].rows < 0
       /\ Preorder(lay.table.body)[k].fromKey = "missing"
       /\ BodyOut(lay)[j].row = BodyOut(lay)[i].row + 1
       /\ BodyOut(lay)[j].col = BodyOut(lay)[i].col

\* ---- mergeAs.fromKey
\* s consecutive rows from position `at` keep the category, and the run ends
\* there: at the end of the group or at a row with another category
IsRun(values, at, s) ==
  /\ s >= 1
  /\ at + s - 1 <= Len(values)
  /\ \A k \in at..(at + s - 1) : values[k] = values[at]
  /\ at + s <= Len(values) => values[at + s] # values[at]

\* C16: the cell with mergeAs.fromKey = K spans exactly the consecutive sibling
\* rows, from its own row on, whose cell keyed K keeps the same value, and the
\* lookahead stays within the sibling group.
C16_FromKeySpan ==
  lay.done =>
    LET merged == {c \in SeqToSet(lay.out) : c.key = "label"}
    IN /\ Cardinality(merged) = 1
       /\ \A c \in merged :
            /\ IsRun(lay.table.values, lay.table.at, c.rowSpan)
            /\ c.row = lay.bodyStart + lay.table.at - 1
            /\ c.row + c.rowSpan - 1 <= lay.bodyStart + Len(lay.table.values) - 1
       /\ Cardinality(BodyRows(lay)) = Len(lay.table.values)

\* C16 witness: categories A, A, A, B with the merging cell on the first row:
\* the span is 3
C16_Witness ==
  /\ lay.done
  /\ lay.table.values = <<"A", "A", "A", "B">>
  /\ lay.table.at = 1
  /\ \E c \in SeqToSet(lay.out) : c.key = "label" /\ c.rowSpan = 3

\* ---- malformed colors
\* a 6-digit hex color, with or without the leading '#'
SixHexDigits(t) == Len(t) = 6 /\ \A i \in 1..6 : t[i] \in HexDigits

WellFormedText(t) ==
  IF startsWith(t, "#") THEN SixHexDigits(Tail(t)) ELSE SixHexDigits(t)

\* C17: a malformed color (a string that is not a 6-digit hex color, a theme
\* object, a CMYK object where CMYK is not supported) converts to black,
\* #000000, r = g = b = 0, in colorToHex, colorToRgb and convertColor.
C17_MalformedColorIsBlack ==
  LET c == conv.color
      malformed == (c.kind = "string" /\ ~WellFormedText(c.text)) \/ c.kind = "theme"
  IN /\ (malformed \/ c.kind = "cmyk") /\ "colorToHex" \in conv.did
          => conv.hex = BlackHex
     /\ (malformed \/ c.kind = "cmyk") /\ "colorToRgb" \in conv.did
          => conv.rgb = BlackRgb
     /\ malformed /\ "convertColor" \in conv.did
          => conv.pdf = BlackPdf

\* ---- saveToStream
\* C18: saveToStream calls build() once, hands the stream one chunk, the whole
\* document, and its promise is never rejected: it resolves to success after
\* a callback without error, to a FILE_ERROR when the callback reports an
\* error or write() throws, and to the build's failure, with nothing
\* written, when the build failed.
C18_SaveToStreamNeverRejects ==
  /\ save.builds <= 1
  /\ Len(save.chunks) <= 1
  /\ save.promise # "rejected"
  /\ save.pc = "written" => save.chunks = <<calls[save.t].result.bytes>>
  /\ save.promise = "resolved" =>
       \/ save.result.success /\ Len(save.chunks) = 1
       \/ ~save.result.success /\ save.result.type = "FILE_ERROR"
       \/ /\ ~save.result.success
          /\ save.result = calls[save.t].result
          /\ save.chunks = <<>>

\* ---- config.maxPages
\* C19: the builder never holds more pages than config.maxPages.
C19_PagesWithinMaxPages == Len(pages) <= maxPages

\* ---- ExcelReader.fromBuffer
Defined(obj, field) == field \in DOMAIN obj

\* C20: on success, data is the requested representation itself: sheets and
\* totalSheets (the number of sheets read) for WORKSHEET, cells and
\* totalCells for DETAILED, the flat structure for FLAT.
C20_DataIsTheRepresentation ==
  reader.pc = "done" /\ reader.result.success =>
    LET data == reader.result.data
        wb == reader.workbook
        o == reader.options
        f == MergedFormat(o)
    IN /\ f = "worksheet" =>
            /\ Defined(data, "sheets") /\ Defined(data, "totalSheets")
            /\ data.totalSheets = Cardinality(SheetsToProcess(wb, o))
       /\ f = "detailed" =>
            Defined(data, "cells") /\ Defined(data, "totalCells")
       /\ f = "flat" =>
            Defined(data, "data") \/ Defined(data, "sheets")

\* ---- the guard over the whole of a build
\* a build() call that passed the guard returns: the guard is open again
GuardReleasedStep ==
  \A t \in Calls :
    (BuildReturns(t) /\ calls[t].pc \in {"pages", "ending"}) => ~isBuilding'

\* a build() call made while no other is in flight is accepted, and no page
\* is left marked as built except those it renders itself
AcceptedBuildStep ==
  \A t \in Calls :
    (calls[t].pc = "idle" /\ calls'[t].pc # "idle" /\ InFlight = {}) =>
      /\ calls'[t].pc \in {"pages", "ending"}
      /\ isBuilding'
      /\ \A i \in 1..Len(pages') :
           pages'[i].isBuilt => pages'[i].id \in {d.id : d \in SeqToSet(calls'[t].doc)}

\* the page loop of a build ends: every page of the map was passed, and each
\* non-hidden page passed is in the document once
LoopEndStep ==
  \A t \in Calls :
    (calls[t].pc # "ending" /\ calls'[t].pc = "ending") =>
      /\ \A i \in 1..Len(pages') : pages'[i].id \in calls'[t].visited
      /\ \A i \in 1..Len(pages') :
           ~pages'[i].hidden =>
             Cardinality({k \in 1..Len(calls'[t].doc) :
                            calls'[t].doc[k].id = pages'[i].id}) = 1

\* C21: a build() call that passed the guard returns a Result once the backend
\* has ended, and isBuilding is false whenever it returns, with success or
\* failure; a build() made when none is in flight is therefore accepted, and
\* it renders every non-hidden page again because isBuilt is reset first.
C21_GuardReleasedOnReturn ==
  /\ [][GuardReleasedStep]_vars
  /\ [][AcceptedBuildStep]_vars
  /\ [][LoopEndStep]_vars
  /\ \A t \in Calls : (calls[t].pc \in {"pages", "ending"}) ~> (calls[t].pc = "done")

\* C21 witness: two build() calls, one after the other, on the same page: the
\* second was accepted and rendered the page the first had already rendered
C21_Witness ==
  /\ nextId = 2
  /\ calls[1].pc = "done"
  /\ calls[1].result.success
  /\ calls[1].result.bytes = 2
  /\ calls[2].pc = "done"
  /\ calls[2].result.success
  /\ calls[2].result.bytes = 2
  /\ ~isBuilding

\* ---- the current page
\* the current page, if there is one, is a page object of the map, stored
\* under its name
CurrentPageIsStored ==
  currentPage # NoPage =>
    \E i \in 1..Len(pages) :
      /\ pages[i].id = currentPage
      /\ HasPage(pages, pages[i].name)
      /\ PageIndex(pages, pages[i].name) = i

SetCurrentPageStep ==
  \A n \in Names :
    SetCurrentPage(n) =>
      /\ IF \E i \in 1..Len(pages) : pages[i].name = n
         THEN /\ last' = Outcome("setCurrentPage", "true", NoResult)
              /\ \E i \in 1..Len(pages) :
                   pages[i].name = n /\ currentPage' = pages[i].id
         ELSE /\ last' = Outcome("setCurrentPage", "false", NoResult)
              /\ currentPage' = currentPage
      /\ pages' = pages

BuildStep(t) == calls'[t] # calls[t]

CountGlobal(blocks) == Cardinality({k \in 1..Len(blocks) : blocks[k] = "global"})

\* C23 as stated: build() leaves the header, body and footer stored in every
\* page as they were, and every page it renders has the global header blocks
\* and the global footer blocks once, before the page's own.
C23_BuildLeavesPagesUnchanged ==
  /\ [][\A t \in Calls :
          BuildStep(t) =>
            \A i \in 1..Len(pages) :
              /\ pages'[i].header = pages[i].header
              /\ pages'[i].body = pages[i].body
              /\ pages'[i].footer = pages[i].footer]_vars
  /\ [](\A t \in Calls :
          \A k \in 1..Len(calls[t].doc) :
            /\ CountGlobal(calls[t].doc[k].header) = globalHeader
            /\ CountGlobal(calls[t].doc[k].footer) = globalFooter)

\* ---- the pages of the document
\* C24: when the page loop of a build has ended, the document holds one page
\* for each non-hidden page of the map and none for a hidden one, in the order
\* the pages were inserted (page objects are numbered as they are created, so
\* a page removed and added again under its name comes last), each with its
\* header, body and footer, in that order, as the page stores them.
C24_OnePagePerVisiblePage ==
  \A t \in Calls :
    calls[t].pc = "ending" =>
      LET doc == calls[t].doc
      IN /\ {doc[k].id : k \in 1..Len(doc)} =
              {pages[i].id : i \in {j \in 1..Len(pages) : ~pages[j].hidden}}
         /\ \A k, l \in 1..Len(doc) : k < l => doc[k].id < doc[l].id
         /\ \A k \in 1..Len(doc) :
              /\ doc[k].order = <<"header", "body", "footer">>
              /\ \E i \in 1..Len(pages) :
                   /\ pages[i].id = doc[k].id
                   /\ doc[k].header = pages[i].header
                   /\ doc[k].body = pages[i].body
                   /\ doc[k].footer = pages[i].footer

\* C24 witness: pages A and B were added, A was removed and added again; the
\* document holds B's page and then the new A's, and nothing for a hidden page
C24_Witness ==
  \E t \in Calls :
    /\ calls[t].pc = "ending"
    /\ Len(pages) = 2
    /\ pages[1].name = "B" /\ pages[1].id = 2
    /\ pages[2].name = "A" /\ pages[2].id = 3
    /\ Len(calls[t].doc) = 2
    /\ calls[t].doc[1].id = 2
    /\ calls[t].doc[2].id = 3

\* ---- build events
CountEvents(type) ==
  Cardinality({k \in 1..Len(events.build) : events.build[k] = type})

\* the build() calls that passed the guard, and those of them that returned
Accepted ==
  {t \in Calls : calls[t].pc \in {"pages", "ending"}
                   \/ (calls[t].pc = "done"
                         /\ calls[t].result.code # "BUILD_IN_PROGRESS")}

EventsMatchCalls ==
  IF enableEvents
  THEN /\ CountEvents("buildStarted") = Cardinality(Accepted)
       /\ CountEvents("buildCompleted") =
            Cardinality({t \in Accepted : calls[t].pc = "done" /\ calls[t].result.success})
       /\ CountEvents("buildError") =
            Cardinality({t \in Accepted : calls[t].pc = "done" /\ ~calls[t].result.success})
  ELSE events = NoEvents

BuildEventStep ==
  \A t \in Calls :
    BuildStep(t) =>
      LET entered == calls[t].pc = "idle"
          returned == calls'[t].pc = "done"
          rejected == entered /\ returned
          emitted == IF rejected \/ ~enableEvents THEN <<>>
                     ELSE IF entered THEN <<"buildStarted">>
                     ELSE IF ~returned THEN <<>>
                     ELSE IF calls'[t].result.success THEN <<"buildCompleted">>
                     ELSE <<"buildError">>
      IN /\ events'.build = events.build \o emitted
         /\ entered /\ ~rejected => calls[t].doc = <<>>

\* C25: with events enabled a build() call that passes the guard emits
\* buildStarted as it starts, before any page is rendered, and as it returns
\* buildCompleted if the Result is a success and buildError if it is a
\* failure, and nothing else; a call rejected with BUILD_IN_PROGRESS emits
\* nothing; with enableEvents = false nothing is ever emitted.
C25_BuildEvents == []EventsMatchCalls /\ [][BuildEventStep]_vars

\* C25 witness: with events enabled, a build that failed while rendering and
\* a build after it that succeeded
C25_Witness ==
  /\ enableEvents
  /\ events.build = <<"buildStarted", "buildError", "buildStarted", "buildCompleted">>
  /\ calls[1].result = error("BUILD_ERROR", "BUILD_FAILED")
  /\ calls[2].result.success

\* ---- saveToFile
\* C26 as stated: when the build inside saveToFile fails, saveToFile returns
\* that failure and has neither made a directory nor written a file; the file
\* is written only after a successful build, and the directory is made only
\* when options.createDir is not false.
C26_FailedBuildTouchesNoFile ==
  /\ (save.pc = "done" /\ save.t # 0 /\ ~calls[save.t].result.success) =>
       /\ save.promise = "resolved"
       /\ save.result = calls[save.t].result
       /\ ~save.dir
       /\ ~save.file
  /\ save.file => (save.t # 0 /\ calls[save.t].result.success)
  /\ save.dir => save.createDir

====
